---- MODULE Spec2Model ----
(***************************************************************************)
(* uqr: the generation orchestrator (encode), the border post-processor    *)
(* (addBorder), the coordinate accessor (getDataAt) and the renderers      *)
(* renderUnicode, renderUnicodeCompact and renderSVG.                      *)
(*                                                                         *)
(* JavaScript arrays are modelled as sequences; the source's 0-based index *)
(* i is the sequence index i + 1.  A string is the sequence of its         *)
(* characters, each character a one-element token.                         *)
(***************************************************************************)
EXTENDS Integers, Sequences, FiniteSets, TLC

\* ---------------------------------------------------------------- bounds
MaxSize == 3
MaxBorder == 2
MaxLen == 1

\* ------------------------------------------------------------- constants
DefaultBorder == 1
DefaultPixelSize == 10

\* an optional property: <<>> when the caller did not pass it, <<v>> otherwise
Get(o, default) == IF o = <<>> THEN default ELSE o[1]

Newline == "\n"

\* src/src/render.ts:15-16, the default characters of renderUnicode
DefaultWhiteChar == "u2588"
DefaultBlackChar == "u2591"

\* src/src/render.ts:52-57, platte
platte ==
  [WHITE_ALL |-> "u2588", WHITE_BLACK |-> "u2580",
   BLACK_WHITE |-> "u2584", BLACK_ALL |-> " "]

WHITE == FALSE
BLACK == TRUE

\* QrCodeDataType (./types): the border tag and the tags the collaborator uses
Border == "Border"
RawTypes == <<"Data", "Function", "Position">>

\* EccMap (./qrcode): symbol -> the collaborator's internal level
EccLevels == {"L", "M", "Q", "H"}
Undefined == <<>>
EccMap == [e \in EccLevels |-> <<e>>]
EccLookup(ecc) == IF ecc \in DOMAIN EccMap THEN EccMap[ecc] ELSE Undefined

\* ---------------------------------------------------------------- helpers
Repeat(v, n) == [i \in 1..n |-> v]

RECURSIVE Join(_, _)
Join(lines, sep) ==
  IF Len(lines) = 0 THEN <<>>
  ELSE IF Len(lines) = 1 THEN lines[1]
  ELSE lines[1] \o <<sep>> \o Join(Tail(lines), sep)

RECURSIVE Concat(_)
Concat(parts) ==
  IF Len(parts) = 0 THEN <<>> ELSE parts[1] \o Concat(Tail(parts))

\* ------------------------------------------------------ encode.ts: typeof
TypeOf(d) ==
  CASE d.kind = "string" -> "string"
    [] d.kind = "array" -> "object"
    [] d.kind = "number" -> "number"
    [] d.kind = "null" -> "object"
    [] d.kind = "object" -> "object"
    [] d.kind = "undefined" -> "undefined"

\* makeSegments(text) and makeBytes(bytes) of ./qrcode
makeSegments(d) == IF d.len = 0 THEN <<>> ELSE <<[mode |-> "text", len |-> d.len]>>
makeBytes(d) == [mode |-> "byte", len |-> d.len]

NoSegment == [defined |-> FALSE, segs |-> <<>>]

\* faulty variant: the Array.isArray test is dropped, whatever is not a string is bytes
Dispatch_NoArrayCheck(d) ==
  IF TypeOf(d) = "string" THEN [defined |-> TRUE, segs |-> makeSegments(d)]
  ELSE [defined |-> TRUE, segs |-> <<makeBytes(d)>>]

\* encode.ts:25-29, the segment list or undefined
Dispatch(d) ==
  IF TypeOf(d) = "string" THEN [defined |-> TRUE, segs |-> makeSegments(d)]
  ELSE IF d.kind = "array" THEN [defined |-> TRUE, segs |-> <<makeBytes(d)>>]
  ELSE NoSegment

\* encode.ts:31, !segment: only undefined is falsy, an empty array is truthy
Falsy(segment) == ~segment.defined

\* encode.ts:32
UnsupportedMessage(d) == <<"uqr only supports encoding string and binary data, but got: ", TypeOf(d)>>

\* faulty variants of addBorder: a border of newRows(size) rows of rowLen(size) cells
\* filled with rowFill, each old row extended by left cells before and
\* 2 * border - left cells after
addBorderVariant(input, border, rowLen, rowFill, left) ==
  IF border = 0 THEN input
  ELSE
    LET newSize == input.size + border * 2
        right == 2 * border - left
        dataRows == [i \in 1..Len(input.data) |->
                       Repeat(FALSE, left) \o input.data[i] \o Repeat(FALSE, right)]
        typeRows == [i \in 1..Len(input.types) |->
                       Repeat(Border, left) \o input.types[i] \o Repeat(Border, right)]
    IN [size |-> newSize,
        data |-> Repeat(Repeat(rowFill, rowLen), left) \o dataRows
                   \o Repeat(Repeat(rowFill, rowLen), right),
        types |-> Repeat(Repeat(Border, rowLen), left) \o typeRows
                   \o Repeat(Repeat(Border, rowLen), right)]

\* faulty variant: the inserted rows are dark
addBorder_DarkRows(input, border) ==
  addBorderVariant(input, border, input.size + border * 2, TRUE, border)

\* faulty variant: the inserted rows have the old size
addBorder_OldSizeRows(input, border) ==
  addBorderVariant(input, border, input.size, FALSE, border)

\* faulty variant: push without unshift, the whole border goes after the content
addBorder_PushOnly(input, border) ==
  addBorderVariant(input, border, input.size + border * 2, FALSE, 0)

\* ---------------------------------------------------- encode.ts: addBorder
addBorder(input, border) ==
  IF border = 0 THEN input
  ELSE
    LET size == input.size
        newSize == size + border * 2
        dataRows == [i \in 1..Len(input.data) |->
                       Repeat(FALSE, border) \o input.data[i] \o Repeat(FALSE, border)]
        typeRows == [i \in 1..Len(input.types) |->
                       Repeat(Border, border) \o input.types[i] \o Repeat(Border, border)]
    IN [size |-> newSize,
        data |-> Repeat(Repeat(FALSE, newSize), border) \o dataRows
                   \o Repeat(Repeat(FALSE, newSize), border),
        types |-> Repeat(Repeat(Border, newSize), border) \o typeRows
                   \o Repeat(Repeat(Border, newSize), border)]

\* faulty variant: the outermost rows and columns are left as they are
invertData_Inner(data) ==
  [i \in 1..Len(data) |-> [j \in 1..Len(data[i]) |->
     IF i \in {1, Len(data)} \/ j \in {1, Len(data[i])}
       THEN data[i][j] ELSE ~data[i][j]]]

\* encode.ts:52
invertData(data) == [i \in 1..Len(data) |-> [j \in 1..Len(data[i]) |-> ~data[i][j]]]

\* encode.ts:102-106
getDataAt(data, x, y, defaults) ==
  IF x < 0 \/ y < 0 \/ x >= Len(data) \/ y >= Len(data) THEN defaults
  ELSE data[y + 1][x + 1]

\* faulty variant: every line ends with a newline
renderUnicode_TrailingNewline(result, blackChar, whiteChar) ==
  Concat([i \in 1..Len(result.data) |->
            [j \in 1..Len(result.data[i]) |->
               IF result.data[i][j] THEN blackChar ELSE whiteChar] \o <<Newline>>])

\* ------------------------------------------------- render.ts: renderUnicode
\* render.ts:20-22 (join('') of one-character strings, then join('\n'))
renderUnicode(result, blackChar, whiteChar) ==
  Join([i \in 1..Len(result.data) |->
          [j \in 1..Len(result.data[i]) |->
             IF result.data[i][j] THEN blackChar ELSE whiteChar]],
       Newline)

\* ------------------------------------------ render.ts: renderUnicodeCompact
\* faulty variant: the accessor's own default
at_LightDefault(result, x, y) == getDataAt(result.data, x, y, FALSE)

\* render.ts:63
at(result, x, y) == getDataAt(result.data, x, y, TRUE)

\* render.ts:69-76
CompactGlyph(result, col, row) ==
  IF at(result, col, row) = WHITE /\ at(result, col, row + 1) = WHITE
    THEN platte.WHITE_ALL
  ELSE IF at(result, col, row) = WHITE /\ at(result, col, row + 1) = BLACK
    THEN platte.WHITE_BLACK
  ELSE IF at(result, col, row) = BLACK /\ at(result, col, row + 1) = WHITE
    THEN platte.BLACK_WHITE
  ELSE platte.BLACK_ALL

\* render.ts:67-80, one line per row pair (row = 0, 2, 4, ... < size)
CompactLines(result) ==
  [k \in 1..((result.size + 1) \div 2) |->
     [c \in 1..result.size |-> CompactGlyph(result, c - 1, 2 * (k - 1))]]

\* render.ts:82
renderUnicodeCompact(result) == Join(CompactLines(result), Newline)

\* ------------------------------------------------------ svg.ts: renderSVG
\* svg.ts:33, `M${x},${y}h${pixelSize}v${pixelSize}h-${pixelSize}z`
SquarePath(x, y, pixelSize) ==
  << <<"M", x, y>>, <<"h", pixelSize>>, <<"v", pixelSize>>,
     <<"h", -pixelSize>>, <<"z">> >>

\* faulty variant: x from the row and y from the column
RECURSIVE Pathes_Transposed(_, _, _)
Pathes_Transposed(result, pixelSize, k) ==
  IF k >= result.size * result.size THEN <<>>
  ELSE
    LET row == k \div result.size
        col == k % result.size
        x == row * pixelSize
        y == col * pixelSize
    IN (IF result.data[row + 1][col + 1]
          THEN <<SquarePath(x, y, pixelSize)>> ELSE <<>>)
       \o Pathes_Transposed(result, pixelSize, k + 1)

\* svg.ts:28-35, the cells in row-major order, k = row * size + col
RECURSIVE Pathes(_, _, _)
Pathes(result, pixelSize, k) ==
  IF k >= result.size * result.size THEN <<>>
  ELSE
    LET row == k \div result.size
        col == k % result.size
        x == col * pixelSize
        y == row * pixelSize
    IN (IF result.data[row + 1][col + 1]
          THEN <<SquarePath(x, y, pixelSize)>> ELSE <<>>)
       \o Pathes(result, pixelSize, k + 1)

\* svg.ts:21-41; the markup as the sequence of its tags, the path's d
\* attribute as the sequence of its commands (pathes.join(''))
renderSVG(result, pixelSize, whiteColor, blackColor) ==
  LET height == result.size * pixelSize
      width == result.size * pixelSize
      pathes == Pathes(result, pixelSize, 0)
  IN << <<"svg", "http://www.w3.org/2000/svg", 0, 0, width, height>>,
        <<"rect", whiteColor, width, height>>,
        <<"path", blackColor, Concat(pathes)>>,
        <<"/svg">> >>

\* --------------------------------------------------------------- inputs
\* what a caller may pass as data
Inputs ==
  [kind : {"string", "array"}, len : 0..MaxLen]
    \cup [kind : {"number", "null", "object", "undefined"}, len : {0}]

EccOptions == {<<>>} \cup {<<e>> : e \in EccLevels \cup {"X"}}
BorderOptions == {<<>>} \cup {<<b>> : b \in 0..MaxBorder}
InvertOptions == {<<>>, <<TRUE>>, <<FALSE>>}
\* onEncoded: not passed, a callback that returns, a callback that throws
CallbackOptions == {"none", "returns", "throws"}
CharOptions == {<<>>, <<"#">>}
PixelSizeOptions == {<<>>, <<3>>}
ColorOptions == {<<>>, <<"red">>}

NoRenderOptions ==
  [blackChar |-> <<>>, whiteChar |-> <<>>, pixelSize |-> <<>>,
   whiteColor |-> <<>>, blackColor |-> <<>>]

RenderOptions(fn) ==
  CASE fn = "renderUnicode" ->
         {[NoRenderOptions EXCEPT !.blackChar = b, !.whiteChar = <<>>] :
            b \in CharOptions}
           \cup {[NoRenderOptions EXCEPT !.blackChar = <<".">>, !.whiteChar = <<"#">>]}
    [] fn = "renderSVG" ->
         {[NoRenderOptions EXCEPT !.pixelSize = p, !.whiteColor = <<>>] :
            p \in PixelSizeOptions}
           \cup {[NoRenderOptions EXCEPT !.whiteColor = c, !.blackColor = <<"blue">>] :
                   c \in ColorOptions \ {<<>>}}
    [] OTHER -> {NoRenderOptions}

Functions == {"encode", "renderUnicode", "renderUnicodeCompact", "renderSVG"}

\* what encodeSegments (./qrcode) may return: a square grid of modules and a
\* square grid of types of the same size
RawModules(n, R, C) == [r \in 1..n |-> [c \in 1..n |-> (r \in R) # (c \in C)]]
RawTypeGrid(n, k) ==
  [r \in 1..n |-> [c \in 1..n |-> RawTypes[((2 * r + c + k) % Len(RawTypes)) + 1]]]
RawResults ==
  UNION {{[size |-> n, modules |-> RawModules(n, R, C),
           types |-> RawTypeGrid(n, Cardinality(R))] :
            R \in SUBSET (1..n), C \in {{}, {n}}} :
         n \in 1..MaxSize}

NoRaw == [size |-> 0, modules |-> <<>>, types |-> <<>>]
NoResult == [size |-> 0, data |-> <<>>, types |-> <<>>]

\* ---------------------------------------------------------------- state
VARIABLES
  pc,        \* position of the call in progress
  fn,        \* the exported function that was called
  data,      \* its data argument
  options,   \* its options argument
  segment,   \* encode.ts:25, const segment
  eccArgs,   \* the ecc argument of every call of encodeSegments
  qr,        \* encode.ts:34, what encodeSegments returned
  result,    \* encode.ts:43, const result
  bordered,  \* the value of result when addBorder returned
  observed,  \* the results options.onEncoded was called with
  events,    \* the steps of the call, in order
  error,     \* what the call threw, <<>> when nothing
  out,       \* the string a text renderer returned
  svg        \* the markup renderSVG returned

vars ==
  <<pc, fn, data, options, segment, eccArgs, qr, result, bordered, observed,
    events, error, out, svg>>

\* encode.ts:16-23, the options with their defaults
ecc == Get(options.ecc, "L")
border == Get(options.border, DefaultBorder)
invert == Get(options.invert, FALSE)

Init ==
  /\ pc = "idle"
  /\ fn = "encode"
  /\ data = [kind |-> "undefined", len |-> 0]
  /\ options = [ecc |-> <<>>, border |-> <<>>, invert |-> <<>>,
                onEncoded |-> "none", render |-> NoRenderOptions]
  /\ segment = NoSegment
  /\ eccArgs = <<>>
  /\ qr = NoRaw
  /\ result = NoResult
  /\ bordered = NoResult
  /\ observed = <<>>
  /\ events = <<>>
  /\ error = <<>>
  /\ out = <<>>
  /\ svg = <<>>

\* a caller calls one of the exported functions; every renderer starts by
\* calling encode(data, options) (render.ts:18, render.ts:59, svg.ts:15)
Call ==
  /\ pc = "idle"
  /\ \E f \in Functions, d \in Inputs, e \in EccOptions, b \in BorderOptions,
        i \in InvertOptions, cb \in CallbackOptions :
       \E r \in RenderOptions(f) :
         /\ fn' = f
         /\ data' = d
         /\ options' = [ecc |-> e, border |-> b, invert |-> i,
                        onEncoded |-> cb, render |-> r]
  /\ pc' = "dispatch"
  /\ UNCHANGED <<segment, eccArgs, qr, result, bordered, observed, events,
                 error, out, svg>>

\* encode.ts:25-32
DispatchInput ==
  /\ pc = "dispatch"
  /\ segment' = Dispatch(data)
  /\ IF Falsy(segment')
       THEN /\ error' = <<"Error", UnsupportedMessage(data)>>
            /\ pc' = "failed"
       ELSE /\ error' = error
            /\ pc' = "generate"
  /\ UNCHANGED <<fn, data, options, eccArgs, qr, result, bordered, observed,
                 events, out, svg>>

\* encode.ts:34-41, encodeSegments is called with EccMap[ecc]; it returns a
\* matrix or throws
Generate ==
  /\ pc = "generate"
  /\ eccArgs' = Append(eccArgs, EccLookup(ecc))
  /\ events' = Append(events, "encodeSegments")
  /\ \/ /\ \E raw \in RawResults : qr' = raw
        /\ pc' = "border"
        /\ error' = error
     \/ /\ qr' = qr
        /\ pc' = "failed"
        /\ error' = <<"Error", <<"encodeSegments">>>>
  /\ UNCHANGED <<fn, data, options, segment, result, bordered, observed, out, svg>>

\* encode.ts:43-49
AddBorder ==
  /\ pc = "border"
  /\ result' = addBorder([size |-> qr.size, data |-> qr.modules, types |-> qr.types],
                         border)
  /\ bordered' = result'
  /\ events' = Append(events, "addBorder")
  /\ pc' = "invert"
  /\ UNCHANGED <<fn, data, options, segment, eccArgs, qr, observed, error, out, svg>>

\* encode.ts:51-52
Invert ==
  /\ pc = "invert"
  /\ result' = IF invert THEN [result EXCEPT !.data = invertData(result.data)]
               ELSE result
  /\ events' = Append(events, "invert")
  /\ pc' = "notify"
  /\ UNCHANGED <<fn, data, options, segment, eccArgs, qr, bordered, observed,
                 error, out, svg>>

\* faulty variant: onEncoded is called with the result as addBorder left it
Notify_BeforeInvert ==
  /\ pc = "notify"
  /\ IF options.onEncoded = "none"
       THEN /\ pc' = "return"
            /\ UNCHANGED <<observed, events, error>>
       ELSE /\ observed' = Append(observed, bordered)
            /\ events' = <<"encodeSegments", "addBorder", "onEncoded", "invert">>
            /\ IF options.onEncoded = "throws"
                 THEN pc' = "failed" /\ error' = <<"Error", <<"onEncoded">>>>
                 ELSE pc' = "return" /\ error' = error
  /\ UNCHANGED <<fn, data, options, segment, eccArgs, qr, result, bordered, out, svg>>

\* encode.ts:54
Notify ==
  /\ pc = "notify"
  /\ IF options.onEncoded = "none"
       THEN /\ pc' = "return"
            /\ UNCHANGED <<observed, events, error>>
       ELSE /\ observed' = Append(observed, result)
            /\ events' = Append(events, "onEncoded")
            /\ IF options.onEncoded = "throws"
                 THEN pc' = "failed" /\ error' = <<"Error", <<"onEncoded">>>>
                 ELSE pc' = "return" /\ error' = error
  /\ UNCHANGED <<fn, data, options, segment, eccArgs, qr, result, bordered, out, svg>>

\* encode.ts:56
Return ==
  /\ pc = "return"
  /\ events' = Append(events, "return")
  /\ pc' = IF fn = "encode" THEN "done" ELSE "render"
  /\ UNCHANGED <<fn, data, options, segment, eccArgs, qr, result, bordered,
                 observed, error, out, svg>>

\* render.ts:14-22
RenderUnicode ==
  /\ pc = "render"
  /\ fn = "renderUnicode"
  /\ out' = renderUnicode(result,
                          Get(options.render.blackChar, DefaultBlackChar),
                          Get(options.render.whiteChar, DefaultWhiteChar))
  /\ pc' = "done"
  /\ UNCHANGED <<fn, data, options, segment, eccArgs, qr, result, bordered,
                 observed, events, error, svg>>

\* render.ts:59-82
RenderUnicodeCompact ==
  /\ pc = "render"
  /\ fn = "renderUnicodeCompact"
  /\ out' = renderUnicodeCompact(result)
  /\ pc' = "done"
  /\ UNCHANGED <<fn, data, options, segment, eccArgs, qr, result, bordered,
                 observed, events, error, svg>>

\* svg.ts:15-41
RenderSVG ==
  /\ pc = "render"
  /\ fn = "renderSVG"
  /\ svg' = renderSVG(result,
                      Get(options.render.pixelSize, DefaultPixelSize),
                      Get(options.render.whiteColor, "white"),
                      Get(options.render.blackColor, "black"))
  /\ pc' = "done"
  /\ UNCHANGED <<fn, data, options, segment, eccArgs, qr, result, bordered,
                 observed, events, error, out>>

\* the call is over (returned or threw); the next call shares nothing with it
Reset ==
  /\ pc \in {"done", "failed"}
  /\ pc' = "idle"
  /\ fn' = "encode"
  /\ data' = [kind |-> "undefined", len |-> 0]
  /\ options' = [ecc |-> <<>>, border |-> <<>>, invert |-> <<>>,
                 onEncoded |-> "none", render |-> NoRenderOptions]
  /\ segment' = NoSegment
  /\ eccArgs' = <<>>
  /\ qr' = NoRaw
  /\ result' = NoResult
  /\ bordered' = NoResult
  /\ observed' = <<>>
  /\ events' = <<>>
  /\ error' = <<>>
  /\ out' = <<>>
  /\ svg' = <<>>

Next ==
  \/ Call
  \/ Reset
  \/ DispatchInput
  \/ Generate
  \/ AddBorder
  \/ Invert
  \/ Notify
  \/ Return
  \/ RenderUnicode
  \/ RenderUnicodeCompact
  \/ RenderSVG

Spec == Init /\ [][Next]_vars

TypeOK == pc \in {"idle", "dispatch", "generate", "border", "invert", "notify",
                  "return", "render", "done", "failed"}

\* ------------------------------------------------------------ properties
\* encode has returned its result (to the caller or to the renderer)
Returned == pc \in {"render", "done"}
Did(e) == \E i \in DOMAIN events : events[i] = e

\* the quiet zone of a grid of the given size, 1-based
InRing(r, c, size, b) == r <= b \/ r > size - b \/ c <= b \/ c > size - b

\* String.prototype.split on a one-character separator
RECURSIVE SplitOn(_, _)
SplitOn(str, sep) ==
  IF \A i \in DOMAIN str : str[i] # sep THEN <<str>>
  ELSE LET i == CHOOSE k \in DOMAIN str :
                  str[k] = sep /\ \A j \in 1..(k - 1) : str[j] # sep
       IN <<SubSeq(str, 1, i - 1)>> \o SplitOn(SubSeq(str, i + 1, Len(str)), sep)

Dark(grid) ==
  Cardinality({rc \in (DOMAIN grid) \X (DOMAIN grid) : grid[rc[1]][rc[2]]})

\* C1: the returned size is the collaborator's size plus twice the border;
\* every cell of the border ring is tagged Border and, unless invert is set,
\* is light
C1_BorderRing ==
  Returned =>
    /\ result.size = qr.size + 2 * border
    /\ \A r \in 1..result.size, c \in 1..result.size :
         InRing(r, c, result.size, border) =>
           /\ result.types[r][c] = Border
           /\ ~invert => result.data[r][c] = FALSE

C1_Witness ==
  /\ Returned
  /\ border = 2
  /\ ~invert
  /\ qr.size = 3
  /\ qr.modules[1][1] = TRUE
  /\ result.size = 7

\* C10: addBorder keeps the collaborator's modules and types, moved by the
\* border width in both directions; a border of 0 changes nothing
C10_ContentCentred ==
  Did("addBorder") =>
    /\ \A r \in 1..qr.size, c \in 1..qr.size :
         /\ bordered.data[r + border][c + border] = qr.modules[r][c]
         /\ bordered.types[r + border][c + border] = qr.types[r][c]
    /\ border = 0 =>
         /\ bordered.size = qr.size
         /\ bordered.data = qr.modules
         /\ bordered.types = qr.types

C10_Witness ==
  /\ Did("addBorder")
  /\ border = 1
  /\ qr.size = 3
  /\ qr.modules[1][3] = TRUE
  /\ qr.modules[3][1] = FALSE
  /\ bordered.data[2][4] = TRUE

\* C8: every result that encode returns or hands to onEncoded is square in
\* both grids, of the size it announces
Square(res) ==
  /\ Len(res.data) = res.size
  /\ \A i \in DOMAIN res.data : Len(res.data[i]) = res.size
  /\ Len(res.types) = res.size
  /\ \A i \in DOMAIN res.types : Len(res.types[i]) = res.size

C8_SquareGrids ==
  /\ Returned => Square(result)
  /\ \A i \in DOMAIN observed : Square(observed[i])

C8_Witness ==
  /\ Returned
  /\ Len(observed) = 1
  /\ border = 2
  /\ invert
  /\ qr.size = 2
  /\ Len(result.data) = 6

\* C6: with invert the returned modules are the cell-wise negation of the
\* bordered grid that encode returns without invert, quiet zone included;
\* negating again gives that grid back; the types are the same
C6_InvertNegates ==
  Returned =>
    /\ result.size = bordered.size
    /\ result.types = bordered.types
    /\ IF invert
         THEN /\ Len(result.data) = Len(bordered.data)
              /\ \A r \in DOMAIN bordered.data :
                   /\ Len(result.data[r]) = Len(bordered.data[r])
                   /\ \A c \in DOMAIN bordered.data[r] :
                        /\ result.data[r][c] = ~bordered.data[r][c]
                        /\ (~result.data[r][c]) = bordered.data[r][c]
              /\ border > 0 => result.data[1][1] = TRUE
         ELSE result.data = bordered.data

C6_Witness ==
  /\ Returned
  /\ invert
  /\ border = 1
  /\ qr.size = 2
  /\ qr.modules[1][1] = TRUE
  /\ result.data[1][1] = TRUE
  /\ result.data[2][2] = FALSE

\* C4: data that is neither a string nor an array makes encode throw the
\* error that names typeof data, with no call of encodeSegments, addBorder or
\* onEncoded; a string or an array gets past the dispatch
C4_UnsupportedInput ==
  pc \notin {"idle", "dispatch"} =>
    IF data.kind \in {"string", "array"}
      THEN /\ segment.defined
           /\ pc = "generate" \/ Did("encodeSegments")
      ELSE /\ pc = "failed"
           /\ error = <<"Error", UnsupportedMessage(data)>>
           /\ error[2][2] =
                (CASE data.kind = "number" -> "number"
                   [] data.kind = "undefined" -> "undefined"
                   [] OTHER -> "object")
           /\ eccArgs = <<>>
           /\ events = <<>>
           /\ observed = <<>>
           /\ result = NoResult

C4_Witness ==
  /\ pc = "failed"
  /\ data.kind = "number"
  /\ error[2][2] = "number"
  /\ eccArgs = <<>>

\* C3 as claimed: an ecc outside L, M, Q, H makes encode fail before
\* encodeSegments is called, and encode never returns
C3_InvalidEccRejected ==
  (pc # "idle" /\ ecc \notin EccLevels) =>
    /\ eccArgs = <<>>
    /\ ~Did("encodeSegments")
    /\ ~Returned

\* C5: when onEncoded is passed and encode returns, the callback was called
\* once, after addBorder and the inversion and before the return, with the
\* result that encode returns
C5_CallbackOnce ==
  /\ Len(observed) <= 1
  /\ (options.onEncoded # "none" /\ (Returned \/ pc = "return")) =>
       /\ Len(observed) = 1
       /\ observed[1] = result
       /\ observed[1].size = qr.size + 2 * border
       /\ observed[1].data[1][1] = (IF border > 0 THEN invert ELSE qr.modules[1][1] # invert)
  /\ (options.onEncoded # "none" /\ Returned) =>
       events = <<"encodeSegments", "addBorder", "invert", "onEncoded", "return">>
  /\ (options.onEncoded = "none") => ~Did("onEncoded")

C5_Witness ==
  /\ pc = "done"
  /\ fn = "encode"
  /\ options.onEncoded = "returns"
  /\ invert
  /\ border = 1
  /\ Len(observed) = 1
  /\ observed[1].data[1][1] = TRUE

LastLine == LET lines == SplitOn(out, Newline) IN lines[Len(lines)]
OddCompact ==
  pc = "done" /\ fn = "renderUnicodeCompact" /\ result.size % 2 = 1

SvgTags(tag) == {i \in DOMAIN svg : svg[i][1] = tag}
PathD == svg[CHOOSE i \in SvgTags("path") : TRUE][3]
SvgDone == pc = "done" /\ fn = "renderSVG"
SvgShape(perModule) ==
  LET pixelSize == Get(options.render.pixelSize, DefaultPixelSize)
      whiteColor == Get(options.render.whiteColor, "white")
  IN /\ Cardinality(SvgTags("rect")) = 1
     /\ \A i \in SvgTags("rect") : svg[i][2] = whiteColor
     /\ Cardinality(SvgTags("path")) = 1
     /\ Len(PathD) = perModule * Dark(result.data)
     /\ {<<PathD[i][2], PathD[i][3]>> : i \in {j \in DOMAIN PathD : PathD[j][1] = "M"}}
          = {<<(rc[2] - 1) * pixelSize, (rc[1] - 1) * pixelSize>> :
               rc \in {q \in (1..result.size) \X (1..result.size) :
                         result.data[q[1]][q[2]]}}
     /\ Cardinality({j \in DOMAIN PathD : PathD[j][1] = "M"}) = Dark(result.data)
     /\ Cardinality({j \in DOMAIN PathD : PathD[j][1] = "z"}) = Dark(result.data)

\* C7 as claimed: one rect filled with whiteColor, one path, and 4 commands
\* in the path per dark module, one closed square per dark module starting
\* at (col * pixelSize, row * pixelSize)
C7_FourPerModule == SvgDone => SvgShape(4)

\* C7 as amended: the same with 5 commands per dark module (M, h, v, h, z)
C7_FivePerModule ==
  SvgDone =>
    /\ SvgShape(5)
    /\ \A j \in DOMAIN PathD :
         PathD[j][1] = <<"M", "h", "v", "h", "z">>[((j - 1) % 5) + 1]

C7_Witness ==
  /\ SvgDone
  /\ border = 1
  /\ ~invert
  /\ qr.size = 2
  /\ qr.modules = <<<<FALSE, TRUE>>, <<FALSE, TRUE>>>>
  /\ options.render.pixelSize = <<3>>
  /\ Len(PathD) = 10
  /\ PathD[1] = <<"M", 6, 3>>
  /\ PathD[6] = <<"M", 6, 6>>

====
